---- MODULE Spec2Model ----
(***************************************************************************)
(* Shift-assignment scheduler of robawtic/scheduler.                       *)
(*                                                                         *)
(* The model covers the domain entities (Employee, Workstation, Schedule,  *)
(* ShiftAssignment), the roster repositories as ScheduleService uses them, *)
(* the persistence of schedules, and ScheduleService.generate_schedule     *)
(* with the CP-SAT model it builds.                                        *)
(***************************************************************************)
EXTENDS Integers, Sequences, FiniteSets, TLC

VARIABLES
    HAS_ORTOOLS,      \* schedule_service.py: result of the import probe
    employees,        \* the employee roster: id -> Employee entity
    workstations,     \* the workstation roster: id -> Workstation entity
    db_schedules,     \* table "schedules": id -> row
    db_assignments,   \* table "shift_assignments": id -> row
    next_uuid,        \* number of uuid4() values drawn so far
    now,              \* datetime.now(), one tick per operation
    sched,            \* the Schedule entity the caller holds
    err,              \* what the last call on sched raised, "none" if nothing
    gen,              \* frame of the last generate_schedule call
    svc,              \* frame of the last publish_schedule or
                      \* update_assignment_status call of ScheduleService
    threads,          \* calls of ScheduleService in progress, one per thread
    limiter,          \* the RateLimiter middleware and the clock it reads
    auth              \* tokens issued, and the last guarded request

vars == <<HAS_ORTOOLS, employees, workstations, db_schedules, db_assignments,
          next_uuid, now, sched, err, gen, svc, threads, limiter, auth>>

\* the state outside the scheduler called in one piece
apart == <<threads, limiter, auth>>

(***************************************************************************)
(* Bounds of the model.                                                    *)
(***************************************************************************)
MaxTime == 3          \* operations per behaviour
MaxPeriods == 2       \* largest periods_per_day a caller passes

EmployeeIds == {"e1", "e2", "e3"}
WorkstationIds == {"w1", "w2"}
EmployeeOrder == <<"e1", "e2", "e3">>       \* row order of table employees
WorkstationOrder == <<"w1", "w2">>          \* row order of table workstations
QualificationNames == {"welding", "assembly"}
QualificationLevels == {1, 2}
DefaultMinimumLevel == 1                    \* add_required_qualification
Teams == {1, 2}
Dates == {"d1"}
PeriodArgs == 0..MaxPeriods
Notes == {""}

(***************************************************************************)
(* ShiftStatus and its stored values.                                      *)
(***************************************************************************)
SCHEDULED == "SCHEDULED"
IN_PROGRESS == "IN_PROGRESS"
COMPLETED == "COMPLETED"
CANCELLED == "CANCELLED"
ShiftStatus == {SCHEDULED, IN_PROGRESS, COMPLETED, CANCELLED}

(***************************************************************************)
(* Sequence helpers.                                                       *)
(***************************************************************************)
Range(s) == {s[i] : i \in 1..Len(s)}

RECURSIVE Filter(_, _)
\* [x for x in s if x in keep]
Filter(s, keep) ==
    IF s = <<>> THEN <<>>
    ELSE IF Head(s) \in keep
         THEN <<Head(s)>> \o Filter(Tail(s), keep)
         ELSE Filter(Tail(s), keep)

(***************************************************************************)
(* Entities.                                                               *)
(***************************************************************************)
\* Employee(...): active, no qualifications, empty availability cache
NewEmployee(id, team) ==
    [id |-> id, team_id |-> team, is_active |-> TRUE,
     qualifications |-> {}, availability_cache |-> << >>]

\* Workstation(...): no required qualifications
NewWorkstation(id, team) ==
    [id |-> id, team_id |-> team, required_qualifications |-> {}]

\* Employee.is_available
is_available(e, target_date) ==
    /\ (IF target_date \in DOMAIN e.availability_cache
        THEN e.availability_cache[target_date] ELSE TRUE)
    /\ e.is_active

\* can_be_operated_by without the check of the required qualifications
can_be_operated_by_Unchecked(w, employee_qualifications) == TRUE

\* Workstation.can_be_operated_by
can_be_operated_by(w, employee_qualifications) ==
    \A rq \in w.required_qualifications :
        \E eq \in employee_qualifications : eq = rq.name

\* Schedule(team_id, start_date, periods_per_day) with Entity.__init__
NewSchedule(id, team, date, periods, t) ==
    [id |-> id, team_id |-> team, start_date |-> date,
     periods_per_day |-> periods, assignments |-> <<>>,
     is_published |-> FALSE, version |-> 1,
     created_at |-> t, updated_at |-> t]

\* no Schedule object
NoSchedule ==
    [id |-> 0, team_id |-> 0, start_date |-> "", periods_per_day |-> 0,
     assignments |-> <<>>, is_published |-> FALSE, version |-> 0,
     created_at |-> 0, updated_at |-> 0]

\* frame of a call that has not happened
NoCall ==
    [outcome |-> "none", error |-> "none", message |-> <<>>,
     called_at |-> 0,
     team_id |-> 0, schedule_date |-> "", periods_per_day |-> 0,
     team_employees |-> <<>>, workstations |-> <<>>,
     available_employee_ids |-> {}, employees |-> <<>>,
     status |-> "none", trace |-> <<>>, schedule |-> NoSchedule]

\* frame of a service call that has not happened
NoServiceCall ==
    [op |-> "none", outcome |-> "none", error |-> "none", message |-> <<>>,
     schedule_id |-> 0, assignment_id |-> 0, status |-> "none",
     loaded |-> NoSchedule, saved |-> NoSchedule, trace |-> <<>>]

\* the threads that call ScheduleService at the same time
Threads == {"t1", "t2"}

\* a thread that is in no call
Idle == [pc |-> "idle", call |-> NoServiceCall, loaded_at |-> 0,
         found_version |-> 0, saved_at |-> 0]

\* no RateLimiter has been added to the application
NoRateLimiter ==
    [limit |-> 0, window |-> 0, requests |-> << >>, time |-> 0,
     added |-> FALSE, log |-> <<>>]

\* nobody has logged in
NoTokens ==
    [refresh_tokens |-> {}, issued |-> {}, next_jti |-> 0,
     last |-> [endpoint |-> "none", token |-> [sub |-> "", roles |-> <<>>,
                                               token_type |-> "none",
                                               jti |-> 0],
               expired |-> FALSE, status_code |-> 0]]

Init ==
    /\ HAS_ORTOOLS \in BOOLEAN
    /\ \E t3 \in Teams :
         employees = [e \in EmployeeIds |->
                        NewEmployee(e, IF e = "e3" THEN t3 ELSE 1)]
    /\ \E t2 \in Teams :
         workstations = [w \in WorkstationIds |->
                           NewWorkstation(w, IF w = "w2" THEN t2 ELSE 1)]
    /\ db_schedules = << >>
    /\ db_assignments = << >>
    /\ next_uuid = 0
    /\ now = 0
    /\ sched = NoSchedule
    /\ err = "none"
    /\ gen = NoCall
    /\ svc = NoServiceCall
    /\ threads = [th \in Threads |-> Idle]
    /\ limiter = NoRateLimiter
    /\ auth = NoTokens

(***************************************************************************)
(* Roster administration: the mutators of Employee and Workstation.        *)
(***************************************************************************)
Tick == now < MaxTime /\ now' = now + 1

\* the roster is administered before the scheduler runs on it
RosterOpen == gen.outcome = "none"

\* Employee.add_qualification
add_qualification(e, name, level) ==
    /\ Tick
    /\ RosterOpen
    /\ employees' = [employees EXCEPT ![e].qualifications =
                        @ \cup {[name |-> name, level |-> level]}]
    /\ UNCHANGED <<HAS_ORTOOLS, workstations, db_schedules, db_assignments,
                   next_uuid, sched, err, gen, svc, apart>>

\* Employee.update_availability
update_availability(e, target_date, available) ==
    /\ Tick
    /\ RosterOpen
    /\ employees' = [employees EXCEPT ![e].availability_cache =
                        [d \in (DOMAIN @) \cup {target_date} |->
                            IF d = target_date THEN available ELSE @[d]]]
    /\ UNCHANGED <<HAS_ORTOOLS, workstations, db_schedules, db_assignments,
                   next_uuid, sched, err, gen, svc, apart>>

\* Employee.deactivate
deactivate(e) ==
    /\ Tick
    /\ RosterOpen
    /\ employees' = [employees EXCEPT ![e].is_active = FALSE]
    /\ UNCHANGED <<HAS_ORTOOLS, workstations, db_schedules, db_assignments,
                   next_uuid, sched, err, gen, svc, apart>>

\* Workstation.add_required_qualification
add_required_qualification(w, name, minimum_level) ==
    /\ Tick
    /\ RosterOpen
    /\ workstations' = [workstations EXCEPT ![w].required_qualifications =
                           @ \cup {[name |-> name,
                                    minimum_level |-> minimum_level]}]
    /\ UNCHANGED <<HAS_ORTOOLS, employees, db_schedules, db_assignments,
                   next_uuid, sched, err, gen, svc, apart>>

(***************************************************************************)
(* Roster repositories.                                                    *)
(***************************************************************************)
\* get_by_team without the filter on team_id
employee_get_by_team_All(team_id) ==
    [i \in 1..Len(EmployeeOrder) |-> employees[EmployeeOrder[i]]]

\* SQLAlchemyEmployeeRepository.get_by_team
employee_get_by_team(team_id) ==
    LET ids == Filter(EmployeeOrder,
                      {e \in EmployeeIds : employees[e].team_id = team_id})
    IN  [i \in 1..Len(ids) |-> employees[ids[i]]]

\* SQLAlchemyEmployeeRepository.get_available_employees
get_available_employees(date) ==
    LET ids == Filter(EmployeeOrder,
                      {e \in EmployeeIds : employees[e].is_active = TRUE})
    IN  [i \in 1..Len(ids) |-> employees[ids[i]]]

\* SQLAlchemyWorkstationRepository.get_by_team
workstation_get_by_team(team_id) ==
    LET ids == Filter(WorkstationOrder,
                      {w \in WorkstationIds : workstations[w].team_id = team_id})
    IN  [i \in 1..Len(ids) |-> workstations[ids[i]]]

(***************************************************************************)
(* Schedule entity.                                                        *)
(***************************************************************************)
\* ShiftAssignment(id, employee_id, workstation_id, period, status, notes)
ShiftAssignment(id, employee_id, workstation_id, period, status, notes) ==
    [id |-> id, employee_id |-> employee_id,
     workstation_id |-> workstation_id, period |-> period,
     status |-> status, notes |-> notes]

\* the range check without its lower bound
add_assignment_raises_UpperOnly(s, period) == period > s.periods_per_day

\* Schedule.add_assignment: the range check
add_assignment_raises(s, period) ==
    period < 1 \/ period > s.periods_per_day

\* add_assignment without the increment of version
add_assignment_NoVersion(s, id, employee_id, workstation_id, period, notes, t) ==
    [s EXCEPT !.assignments =
                  Append(@, ShiftAssignment(id, employee_id, workstation_id,
                                            period, SCHEDULED, notes)),
              !.updated_at = t]

\* Schedule.add_assignment: the schedule after a call that does not raise
add_assignment(s, id, employee_id, workstation_id, period, notes, t) ==
    [s EXCEPT !.assignments =
                  Append(@, ShiftAssignment(id, employee_id, workstation_id,
                                            period, SCHEDULED, notes)),
              !.version = @ + 1,
              !.updated_at = t]

\* remove_assignment without the increment of version
remove_assignment_NoBump(s, assignment_id, t) ==
    [s EXCEPT !.assignments =
                  SelectSeq(@, LAMBDA a : a.id # assignment_id),
              !.updated_at = t]

\* Schedule.remove_assignment
remove_assignment(s, assignment_id, t) ==
    [s EXCEPT !.assignments =
                  SelectSeq(@, LAMBDA a : a.id # assignment_id),
              !.version = @ + 1,
              !.updated_at = t]

\* update_assignment_status that sets the status of every assignment
update_assignment_status_All(s, assignment_id, status, t) ==
    [s EXCEPT !.assignments =
                  [i \in 1..Len(@) |->
                      ShiftAssignment(@[i].id, @[i].employee_id,
                                      @[i].workstation_id, @[i].period,
                                      status, @[i].notes)],
              !.version = @ + 1,
              !.updated_at = t]

\* update_assignment_status that leaves completed and cancelled assignments
update_assignment_status_Terminal(s, assignment_id, status, t) ==
    [s EXCEPT !.assignments =
                  [i \in 1..Len(@) |->
                      ShiftAssignment(@[i].id, @[i].employee_id,
                                      @[i].workstation_id, @[i].period,
                                      IF /\ @[i].id = assignment_id
                                         /\ @[i].status \notin {COMPLETED, CANCELLED}
                                      THEN status ELSE @[i].status,
                                      @[i].notes)],
              !.version = @ + 1,
              !.updated_at = t]

\* update_assignment_status that rebuilds the other assignments with the
\* default status
update_assignment_status_ResetsOthers(s, assignment_id, status, t) ==
    [s EXCEPT !.assignments =
                  [i \in 1..Len(@) |->
                      ShiftAssignment(@[i].id, @[i].employee_id,
                                      @[i].workstation_id, @[i].period,
                                      IF @[i].id = assignment_id
                                      THEN status ELSE SCHEDULED,
                                      @[i].notes)],
              !.version = @ + 1,
              !.updated_at = t]

\* Schedule.update_assignment_status
update_assignment_status(s, assignment_id, status, t) ==
    [s EXCEPT !.assignments =
                  [i \in 1..Len(@) |->
                      ShiftAssignment(@[i].id, @[i].employee_id,
                                      @[i].workstation_id, @[i].period,
                                      IF @[i].id = assignment_id
                                      THEN status ELSE @[i].status,
                                      @[i].notes)],
              !.version = @ + 1,
              !.updated_at = t]

\* publish that does nothing to a published schedule
publish_Idempotent(s, t) ==
    IF s.is_published THEN s
    ELSE [s EXCEPT !.is_published = TRUE, !.version = @ + 1, !.updated_at = t]

\* Schedule.publish
publish(s, t) ==
    [s EXCEPT !.is_published = TRUE, !.version = @ + 1, !.updated_at = t]

\* Schedule.unpublish
unpublish(s, t) ==
    [s EXCEPT !.is_published = FALSE, !.version = @ + 1, !.updated_at = t]

(***************************************************************************)
(* Persistence of schedules.                                               *)
(***************************************************************************)
\* ShiftStatus.value
StatusValue(status) ==
    CASE status = SCHEDULED -> "scheduled"
      [] status = IN_PROGRESS -> "in_progress"
      [] status = COMPLETED -> "completed"
      [] status = CANCELLED -> "cancelled"

\* SQLAlchemyScheduleRepository.save: the row merged into "schedules"
ScheduleRow(s) ==
    [id |-> s.id, team_id |-> s.team_id, start_date |-> s.start_date,
     periods_per_day |-> s.periods_per_day, is_published |-> s.is_published,
     version |-> s.version, created_at |-> s.created_at,
     updated_at |-> s.updated_at]

\* SQLAlchemyScheduleRepository.save: the row merged for one assignment
AssignmentRow(s, a) ==
    [id |-> a.id, schedule_id |-> s.id, employee_id |-> a.employee_id,
     workstation_id |-> a.workstation_id, period |-> a.period,
     status |-> StatusValue(a.status), notes |-> a.notes]

\* a save that leaves a row of a greater version as it is
SavedSchedules_Versioned(s) ==
    IF s.id \in DOMAIN db_schedules /\ db_schedules[s.id].version > s.version
    THEN db_schedules
    ELSE (s.id :> ScheduleRow(s)) @@ db_schedules

\* SQLAlchemyScheduleRepository.save: table "schedules" after the commit.
\* The merge inserts the row of a new id; for a stored id it updates the
\* columns that differ, and an update that does not set updated_at gets it
\* from the column's onupdate=datetime.now
SavedSchedules(s) ==
    LET row == ScheduleRow(s)
        merged == IF /\ s.id \in DOMAIN db_schedules
                     /\ row # db_schedules[s.id]
                     /\ row.updated_at = db_schedules[s.id].updated_at
                  THEN [row EXCEPT !.updated_at = now + 1]
                  ELSE row
    IN  (s.id :> merged) @@ db_schedules

\* SQLAlchemyScheduleRepository.save: table "shift_assignments" after it
SavedAssignments(s) ==
    [id \in {a.id : a \in Range(s.assignments)} |->
        AssignmentRow(s, CHOOSE a \in Range(s.assignments) : a.id = id)]
    @@ db_assignments

(***************************************************************************)
(* The CP-SAT model generate_schedule builds.  shifts[p][<<e, w>>] is the  *)
(* variable shift_e{e}w{w}p{p}; p counts from 0 as in the code, e and w    *)
(* index the lists employees and workstations.                             *)
(***************************************************************************)
\* the variables of one period, with every valuation
PeriodValuations(E, W) == [(1..E) \X (1..W) -> {0, 1}]

\* sum(shifts[e][w][p] for w in range(len(workstations)))
SumOverWorkstations(x, e, W) == Cardinality({w \in 1..W : x[<<e, w>>] = 1})

\* sum(shifts[e][w][p] for e in range(len(employees)))
SumOverEmployees(x, w, E) == Cardinality({e \in 1..E : x[<<e, w>>] = 1})

\* the model without constraint 1
OneWorkstationPerEmployee_Dropped(x, E, W) == TRUE

\* 1. Each employee can only be assigned to one workstation per period
OneWorkstationPerEmployee(x, E, W) ==
    \A e \in 1..E : SumOverWorkstations(x, e, W) <= 1

\* constraint 2 with <= 1 in place of == 1
OneEmployeePerWorkstation_AtMost(x, E, W) ==
    \A w \in 1..W : Cardinality({e \in 1..E : x[<<e, w>>] = 1}) <= 1

\* 2. Each workstation needs exactly one employee per period
OneEmployeePerWorkstation(x, E, W) ==
    \A w \in 1..W : SumOverEmployees(x, w, E) = 1

\* employee_quals = {q.name for q in employees[e].qualifications}
employee_quals(e) == {q.name : q \in e.qualifications}

\* 3. Employee workstation training constraints
TrainingConstraint(x, emps, wss) ==
    \A e \in 1..Len(emps) : \A w \in 1..Len(wss) :
        ~can_be_operated_by(wss[w], employee_quals(emps[e]))
            => x[<<e, w>>] = 0

\* the model without constraint 4
Continuity_Dropped(shifts, E, W, P) == TRUE

\* 4. Workstation continuity - employees stay at same workstation
Continuity(shifts, E, W, P) ==
    \A e \in 1..E : \A w \in 1..W : \A p \in 0..(P - 2) :
        shifts[p][<<e, w>>] = shifts[p + 1][<<e, w>>]

\* the valuations of one period that meet constraints 1 to 3
FeasiblePeriods(emps, wss) ==
    {x \in PeriodValuations(Len(emps), Len(wss)) :
        /\ OneWorkstationPerEmployee(x, Len(emps), Len(wss))
        /\ OneEmployeePerWorkstation(x, Len(emps), Len(wss))
        /\ TrainingConstraint(x, emps, wss)}

\* the assignments that satisfy the model
Solutions(emps, wss, P) ==
    {shifts \in [0..(P - 1) -> FeasiblePeriods(emps, wss)] :
        Continuity(shifts, Len(emps), Len(wss), P)}

OPTIMAL == "OPTIMAL"
FEASIBLE == "FEASIBLE"
INFEASIBLE == "INFEASIBLE"

\* CpSolver.Solve(model): the model has no objective and the solver is given
\* no limit, so it ends with OPTIMAL when an assignment satisfies the model
\* and with INFEASIBLE when none does
SolveStatus(solutions) == IF solutions = {} THEN INFEASIBLE ELSE OPTIMAL

(***************************************************************************)
(* Extraction: the loops over p, e, w that add the assignments.            *)
(***************************************************************************)
\* for p in range(periods_per_day): for e in ...: for w in ...: the
\* iterations of the innermost body, in order
LoopOrder(E, W, P) ==
    [i \in 1..(P * E * W) |->
        [p |-> (i - 1) \div (E * W),
         e |-> (((i - 1) \div W) % E) + 1,
         w |-> ((i - 1) % W) + 1]]

\* the iterations with solver.Value(shifts[e][w][p]) == 1
TrueVariables(shifts, E, W, P) ==
    LET IsTrue(v) == shifts[v.p][<<v.e, v.w>>] = 1
    IN  SelectSeq(LoopOrder(E, W, P), IsTrue)

RECURSIVE AddAssignments(_, _, _, _, _, _)
\* schedule.add_assignment(employees[e].id, workstations[w].id, p + 1) for
\* each of them; a call that raises ends the loops
AddAssignments(s, hits, emps, wss, uuid, t) ==
    IF hits = <<>>
    THEN [raised |-> FALSE, schedule |-> s, uuid |-> uuid]
    ELSE LET v == Head(hits)
             period == v.p + 1
         IN  IF add_assignment_raises(s, period)
             THEN [raised |-> TRUE, schedule |-> s, uuid |-> uuid]
             ELSE AddAssignments(
                      add_assignment(s, uuid + 1, emps[v.e].id, wss[v.w].id,
                                     period, "", t),
                      Tail(hits), emps, wss, uuid + 1, t)

Extract(s, shifts, emps, wss, P, uuid, t) ==
    AddAssignments(s, TrueVariables(shifts, Len(emps), Len(wss), P),
                   emps, wss, uuid, t)

(***************************************************************************)
(* ScheduleService.generate_schedule.                                      *)
(***************************************************************************)
\* the list of the team's employees, not filtered
FilterAvailable_Skipped(team_employees, available_employee_ids) ==
    team_employees

\* employees = [e for e in employees if e.id in available_employee_ids]
FilterAvailable(team_employees, available_employee_ids) ==
    Filter(team_employees,
           {e \in Range(team_employees) : e.id \in available_employee_ids})

\* an except clause that lets the exception through as it is
Wrapped_Reraised(frame, cause) ==
    [frame EXCEPT !.outcome = "raised", !.error = cause,
                  !.message = <<cause>>]

\* except Exception as e: raise ValueError(f"Failed to generate schedule: ...")
Wrapped(frame, cause) ==
    [frame EXCEPT !.outcome = "raised", !.error = "ValueError",
                  !.message = <<"Failed to generate schedule: ", cause>>]

\* the status test without OPTIMAL
SolverSucceeded_FeasibleOnly(status) == status = FEASIBLE

\* status == cp_model.OPTIMAL or status == cp_model.FEASIBLE
SolverSucceeded(status) == status = OPTIMAL \/ status = FEASIBLE

\* the probe ignored: generate_schedule goes on without the solver
SolverMissing_Ignored == FALSE

\* if not HAS_ORTOOLS: raise ImportError(...)
SolverMissing == ~HAS_ORTOOLS

\* a generate_schedule that saves its schedule before it raises
Fails_AfterSave(frame, cause, uuid) ==
    /\ gen' = Wrapped(frame, cause)
    /\ next_uuid' = uuid
    /\ db_schedules' = SavedSchedules(frame.schedule)
    /\ db_assignments' = SavedAssignments(frame.schedule)
    /\ UNCHANGED <<sched, err>>

\* the except clause of generate_schedule: the call ends by raising, and
\* nothing is saved
Fails(frame, cause, uuid) ==
    /\ gen' = Wrapped(frame, cause)
    /\ next_uuid' = uuid
    /\ UNCHANGED <<db_schedules, db_assignments, sched, err>>

\* a save of the schedule as it was before the extraction
SavesAndReturns_BeforeExtraction(frame, schedule, uuid) ==
    /\ gen' = [frame EXCEPT !.outcome = "returned",
                            !.schedule = schedule,
                            !.trace = @ \o <<"schedule_repository.save">>]
    /\ db_schedules' = SavedSchedules(frame.schedule)
    /\ db_assignments' = SavedAssignments(frame.schedule)
    /\ next_uuid' = uuid
    /\ sched' = schedule
    /\ err' = "none"

\* self.schedule_repository.save(schedule); return schedule
SavesAndReturns(frame, schedule, uuid) ==
    /\ gen' = [frame EXCEPT !.outcome = "returned",
                            !.schedule = schedule,
                            !.trace = @ \o <<"schedule_repository.save">>]
    /\ db_schedules' = SavedSchedules(schedule)
    /\ db_assignments' = SavedAssignments(schedule)
    /\ next_uuid' = uuid
    /\ sched' = schedule
    /\ err' = "none"

\* where the database session raises during a call: nowhere, at the first
\* query, or at the commit of save
Faults == {"none", "read", "save"}

generate_schedule(team_id, schedule_date, periods_per_day, fault) ==
    /\ Tick
    /\ UNCHANGED <<HAS_ORTOOLS, employees, workstations, svc, apart>>
    /\ LET t == now + 1
           call == [NoCall EXCEPT !.called_at = t,
                                  !.team_id = team_id,
                                  !.schedule_date = schedule_date,
                                  !.periods_per_day = periods_per_day]
       IN
       IF SolverMissing
       THEN /\ gen' = [call EXCEPT
                         !.outcome = "raised", !.error = "ImportError",
                         !.message = <<"Please install ortools package">>]
            /\ UNCHANGED <<db_schedules, db_assignments, next_uuid, sched, err>>
       ELSE
       LET schedule == NewSchedule(next_uuid + 1, team_id, schedule_date,
                                   periods_per_day, t)
           team_employees == employee_get_by_team(team_id)
           wss == workstation_get_by_team(team_id)
           available_employees == get_available_employees(schedule_date)
           available_employee_ids == {e.id : e \in Range(available_employees)}
           emps == FilterAvailable(team_employees, available_employee_ids)
           read1 == [call EXCEPT
                       !.schedule = schedule,
                       !.team_employees = team_employees,
                       !.workstations = wss,
                       !.trace = <<"employee_repository.get_by_team",
                                   "workstation_repository.get_by_team">>]
           read2 == [read1 EXCEPT
                       !.available_employee_ids = available_employee_ids,
                       !.employees = emps,
                       !.trace = @ \o
                          <<"employee_repository.get_available_employees">>]
           solutions == Solutions(emps, wss, periods_per_day)
           status == SolveStatus(solutions)
           solved == [read2 EXCEPT !.status = status,
                                   !.trace = @ \o <<"solver.Solve">>]
           failed_read == [call EXCEPT
                             !.schedule = schedule,
                             !.trace = <<"employee_repository.get_by_team">>]
       IN
       IF fault = "read"
       THEN Fails(failed_read, "OperationalError", next_uuid + 1)
       ELSE IF team_employees = <<>> \/ wss = <<>>
       THEN Fails(read1, "No employees or workstations found", next_uuid + 1)
       ELSE IF emps = <<>>
       THEN Fails(read2, "No available employees found", next_uuid + 1)
       ELSE IF ~SolverSucceeded(status)
       THEN Fails(solved, "No feasible schedule found", next_uuid + 1)
       ELSE \E shifts \in solutions :
              LET ex == Extract(schedule, shifts, emps, wss, periods_per_day,
                                next_uuid + 1, t)
              IN  IF ex.raised
                  THEN Fails([solved EXCEPT !.schedule = ex.schedule],
                             "Period must be between", ex.uuid)
                  ELSE IF fault = "save"
                  THEN Fails([solved EXCEPT
                                !.schedule = ex.schedule,
                                !.trace = @ \o <<"schedule_repository.save">>],
                             "OperationalError", ex.uuid)
                  ELSE SavesAndReturns(solved, ex.schedule, ex.uuid)

(***************************************************************************)
(* Calls on the Schedule entity the caller holds.                          *)
(***************************************************************************)
Holds == sched.id # 0

\* the ids of the assignments of sched, and one that none of them has
AssignmentIdArgs == {a.id : a \in Range(sched.assignments)} \cup {0}

SchedFrame ==
    UNCHANGED <<HAS_ORTOOLS, employees, workstations, db_schedules,
                db_assignments, gen, svc, apart>>

\* schedule = Schedule(team_id, start_date, periods_per_day)
Construct(team_id, start_date, periods_per_day) ==
    /\ Tick
    /\ sched' = NewSchedule(next_uuid + 1, team_id, start_date,
                            periods_per_day, now + 1)
    /\ next_uuid' = next_uuid + 1
    /\ err' = "none"
    /\ SchedFrame

\* schedule.add_assignment(employee_id, workstation_id, period, notes)
AddAssignment(employee_id, workstation_id, period, notes) ==
    /\ Tick
    /\ Holds
    /\ IF add_assignment_raises(sched, period)
       THEN /\ err' = "ValueError"
            /\ UNCHANGED <<sched, next_uuid>>
       ELSE /\ sched' = add_assignment(sched, next_uuid + 1, employee_id,
                                       workstation_id, period, notes, now + 1)
            /\ next_uuid' = next_uuid + 1
            /\ err' = "none"
    /\ SchedFrame

\* schedule.remove_assignment(assignment_id)
RemoveAssignment(assignment_id) ==
    /\ Tick
    /\ Holds
    /\ sched' = remove_assignment(sched, assignment_id, now + 1)
    /\ err' = "none"
    /\ UNCHANGED next_uuid
    /\ SchedFrame

\* schedule.update_assignment_status(assignment_id, status)
UpdateAssignmentStatus(assignment_id, status) ==
    /\ Tick
    /\ Holds
    /\ sched' = update_assignment_status(sched, assignment_id, status, now + 1)
    /\ err' = "none"
    /\ UNCHANGED next_uuid
    /\ SchedFrame

\* schedule.publish()
Publish ==
    /\ Tick
    /\ Holds
    /\ sched' = publish(sched, now + 1)
    /\ err' = "none"
    /\ UNCHANGED next_uuid
    /\ SchedFrame

\* schedule.unpublish()
Unpublish ==
    /\ Tick
    /\ Holds
    /\ sched' = unpublish(sched, now + 1)
    /\ err' = "none"
    /\ UNCHANGED next_uuid
    /\ SchedFrame

Next ==
    \/ \E e \in EmployeeIds, n \in QualificationNames,
          l \in QualificationLevels : add_qualification(e, n, l)
    \/ \E e \in EmployeeIds, d \in Dates, a \in BOOLEAN :
          update_availability(e, d, a)
    \/ \E e \in EmployeeIds : deactivate(e)
    \/ \E w \in WorkstationIds, n \in QualificationNames :
          add_required_qualification(w, n, DefaultMinimumLevel)
    \/ \E t \in Teams, d \in Dates, P \in PeriodArgs :
          generate_schedule(t, d, P, "none")

Spec == Init /\ [][Next]_vars

(***************************************************************************)
(* The Schedule entity under its own operations, on a roster of one team   *)
(* that nobody edits.                                                      *)
(***************************************************************************)
InitSchedule ==
    /\ Init
    /\ HAS_ORTOOLS
    /\ \A e \in EmployeeIds : employees[e].team_id = 1
    /\ \A w \in WorkstationIds : workstations[w].team_id = 1

NextSchedule ==
    \/ \E t \in Teams, d \in Dates, P \in PeriodArgs : Construct(t, d, P)
    \/ \E e \in EmployeeIds, w \in WorkstationIds,
          p \in 0..(MaxPeriods + 1), n \in Notes : AddAssignment(e, w, p, n)
    \/ \E a \in AssignmentIdArgs : RemoveAssignment(a)
    \/ \E a \in AssignmentIdArgs, st \in ShiftStatus :
          UpdateAssignmentStatus(a, st)
    \/ Publish
    \/ Unpublish
    \/ \E t \in Teams, d \in Dates, P \in PeriodArgs :
          generate_schedule(t, d, P, "none")

SpecSchedule == InitSchedule /\ [][NextSchedule]_vars

(***************************************************************************)
(* Loading schedules, and the operations of ScheduleService on a persisted *)
(* schedule.                                                               *)
(***************************************************************************)
\* ShiftStatus(value)
StatusOf(value) ==
    CASE value = "scheduled" -> SCHEDULED
      [] value = "in_progress" -> IN_PROGRESS
      [] value = "completed" -> COMPLETED
      [] value = "cancelled" -> CANCELLED

RECURSIVE Ascending(_)
\* the ids of S in ascending order
Ascending(S) ==
    IF S = {} THEN <<>>
    ELSE LET least == CHOOSE x \in S : \A y \in S : x <= y
         IN  <<least>> \o Ascending(S \ {least})

\* model.assignments: the rows of the schedule, in primary-key order
ModelAssignments(model) ==
    LET ids == Ascending({id \in DOMAIN db_assignments :
                             db_assignments[id].schedule_id = model.id})
    IN  [i \in 1..Len(ids) |-> db_assignments[ids[i]]]

\* a conversion that leaves the version of a new Schedule
to_domain_entity_FreshVersion(model) ==
    [id |-> model.id, team_id |-> model.team_id,
     start_date |-> model.start_date,
     periods_per_day |-> model.periods_per_day,
     assignments |->
        [i \in 1..Len(ModelAssignments(model)) |->
            LET am == ModelAssignments(model)[i]
            IN  ShiftAssignment(am.id, am.employee_id, am.workstation_id,
                                am.period, StatusOf(am.status), am.notes)],
     is_published |-> model.is_published, version |-> 1,
     created_at |-> model.created_at, updated_at |-> model.updated_at]

\* SQLAlchemyScheduleRepository._to_domain_entity
to_domain_entity(model) ==
    [id |-> model.id, team_id |-> model.team_id,
     start_date |-> model.start_date,
     periods_per_day |-> model.periods_per_day,
     assignments |->
        [i \in 1..Len(ModelAssignments(model)) |->
            LET am == ModelAssignments(model)[i]
            IN  ShiftAssignment(am.id, am.employee_id, am.workstation_id,
                                am.period, StatusOf(am.status), am.notes)],
     is_published |-> model.is_published, version |-> model.version,
     created_at |-> model.created_at, updated_at |-> model.updated_at]

\* SQLAlchemyScheduleRepository.get_by_id; NoSchedule stands for None
get_by_id(schedule_id) ==
    IF schedule_id \in DOMAIN db_schedules
    THEN to_domain_entity(db_schedules[schedule_id])
    ELSE NoSchedule

\* a service that takes whatever get_by_id returned
NotFound_Never(schedule) == FALSE

\* if not schedule
NotFound(schedule) == schedule = NoSchedule

ServiceFrame ==
    UNCHANGED <<HAS_ORTOOLS, employees, workstations, sched, err, gen, apart>>

\* raise ValueError(f"Schedule {schedule_id} not found")
RaisesNotFound(call) ==
    /\ svc' = [call EXCEPT !.outcome = "raised", !.error = "ValueError",
                           !.message = <<"Schedule ", call.schedule_id,
                                         " not found">>]
    /\ UNCHANGED <<db_schedules, db_assignments, next_uuid>>

\* self.schedule_repository.save(schedule), and the call returns
SavesSchedule(call, loaded, schedule) ==
    /\ svc' = [call EXCEPT !.outcome = "returned",
                           !.loaded = loaded, !.saved = schedule,
                           !.trace = @ \o <<"schedule_repository.save">>]
    /\ db_schedules' = SavedSchedules(schedule)
    /\ db_assignments' = SavedAssignments(schedule)
    /\ next_uuid' = next_uuid + 1      \* Schedule(...) in _to_domain_entity

\* ScheduleService.publish_schedule
publish_schedule(schedule_id) ==
    /\ Tick
    /\ LET call == [NoServiceCall EXCEPT
                      !.op = "publish_schedule",
                      !.schedule_id = schedule_id,
                      !.trace = <<"schedule_repository.get_by_id">>]
           schedule == get_by_id(schedule_id)
       IN  IF NotFound(schedule)
           THEN RaisesNotFound(call)
           ELSE SavesSchedule(call, schedule,
                              [schedule EXCEPT !.is_published = TRUE])
    /\ ServiceFrame

\* ScheduleService.update_assignment_status
service_update_assignment_status(schedule_id, assignment_id, status) ==
    /\ Tick
    /\ LET call == [NoServiceCall EXCEPT
                      !.op = "update_assignment_status",
                      !.schedule_id = schedule_id,
                      !.assignment_id = assignment_id,
                      !.status = status,
                      !.trace = <<"schedule_repository.get_by_id">>]
           schedule == get_by_id(schedule_id)
       IN  IF NotFound(schedule)
           THEN RaisesNotFound(call)
           ELSE SavesSchedule(call, schedule,
                              update_assignment_status(schedule, assignment_id,
                                                       status, now + 1))
    /\ ServiceFrame

\* the ids of the persisted schedules, and one that none of them has
ScheduleIdArgs == DOMAIN db_schedules \cup {0}

\* the ids of the persisted assignments, and one that none of them has
PersistedAssignmentIdArgs == DOMAIN db_assignments \cup {0}

NextService ==
    \/ \E t \in Teams, d \in Dates, P \in PeriodArgs :
          generate_schedule(t, d, P, "none")
    \/ \E id \in ScheduleIdArgs : publish_schedule(id)
    \/ \E id \in ScheduleIdArgs, a \in PersistedAssignmentIdArgs,
          st \in ShiftStatus : service_update_assignment_status(id, a, st)

SpecService == InitSchedule /\ [][NextService]_vars

(***************************************************************************)
(* generate_schedule on a database session that can raise.                 *)
(***************************************************************************)
NextFaults ==
    \/ \E e \in EmployeeIds, n \in QualificationNames,
          l \in QualificationLevels : add_qualification(e, n, l)
    \/ \E e \in EmployeeIds : deactivate(e)
    \/ \E w \in WorkstationIds, n \in QualificationNames :
          add_required_qualification(w, n, DefaultMinimumLevel)
    \/ \E t \in Teams, d \in Dates, P \in PeriodArgs, f \in Faults :
          generate_schedule(t, d, P, f)

SpecFaults == Init /\ [][NextFaults]_vars

(***************************************************************************)
(* Properties of generate_schedule, stated on the frame of its last call.  *)
(***************************************************************************)
Called == gen.outcome # "none"
Returned == gen.outcome = "returned"
Raised == gen.outcome = "raised"
Assignments(s) == Range(s.assignments)
RequiredNames(w) == {rq.name : rq \in w.required_qualifications}
HeldNames(e) == {q.name : q \in e.qualifications}
Saved(trace) == "schedule_repository.save" \in Range(trace)
Solved(trace) == "solver.Solve" \in Range(trace)

\* the generation failure a caller of generate_schedule receives
GenerationFailure ==
    /\ Raised
    /\ gen.error = "ValueError"
    /\ gen.message[1] = "Failed to generate schedule: "

\* each workstation of wss can be paired with an employee of emps of its own
\* whose qualification names cover the names the workstation requires
Pairable(emps, wss) ==
    \E f \in [1..Len(wss) -> 1..Len(emps)] :
        /\ \A v, w \in 1..Len(wss) : f[v] = f[w] => v = w
        /\ \A w \in 1..Len(wss) : RequiredNames(wss[w]) \subseteq HeldNames(emps[f[w]])

\* C1. Coverage: a returned schedule holds, for every workstation of the
\* team and every period 1..P, exactly one assignment.
C1_Coverage ==
    Returned =>
        \A w \in Range(gen.workstations) : \A p \in 1..gen.periods_per_day :
            Cardinality({a \in Assignments(gen.schedule) :
                            a.workstation_id = w.id /\ a.period = p}) = 1

C1_Witness ==
    /\ Returned
    /\ Len(gen.workstations) = 2
    /\ gen.periods_per_day = 2
    /\ Len(gen.schedule.assignments) = 4

\* C2. No double-booking: no two assignments of a returned schedule have the
\* same employee and the same period but different workstations.
C2_NoDoubleBooking ==
    Returned =>
        \A a, b \in Assignments(gen.schedule) :
            (a.employee_id = b.employee_id /\ a.period = b.period)
                => a.workstation_id = b.workstation_id

C2_Witness ==
    /\ Returned
    /\ \E a, b \in Assignments(gen.schedule) :
          /\ a.period = b.period
          /\ a.workstation_id # b.workstation_id
          /\ a.employee_id # b.employee_id

\* C3. Qualification respect: in a returned schedule the qualification names
\* of the assigned employee contain every name the workstation requires.
C3_QualificationRespect ==
    Returned =>
        \A a \in Assignments(gen.schedule) :
            \E e \in Range(gen.employees), w \in Range(gen.workstations) :
                /\ e.id = a.employee_id
                /\ w.id = a.workstation_id
                /\ RequiredNames(w) \subseteq HeldNames(e)

C3_Witness ==
    /\ Returned
    /\ \E a \in Assignments(gen.schedule), w \in Range(gen.workstations),
          e \in Range(gen.employees) :
          /\ w.id = a.workstation_id
          /\ RequiredNames(w) # {}
          /\ ~(RequiredNames(w) \subseteq HeldNames(e))

\* C4. Continuity: every employee of a returned schedule is assigned to one
\* workstation only, over all periods.
C4_Continuity ==
    Returned =>
        \A a \in Assignments(gen.schedule) :
            Cardinality({b.workstation_id :
                            b \in {c \in Assignments(gen.schedule) :
                                      c.employee_id = a.employee_id}}) = 1

C4_Witness ==
    /\ Returned
    /\ gen.periods_per_day = 2
    /\ Len(gen.workstations) = 2
    /\ \E a, b \in Assignments(gen.schedule) :
          a.employee_id = b.employee_id /\ a.period # b.period

\* C5. generate_schedule fails with the generation failure whenever the
\* workstations of the team cannot each be paired with an available employee
\* of the team, of its own, who is qualified for it.
C5_UnpairableFails ==
    (Called /\ HAS_ORTOOLS /\ ~Pairable(gen.employees, gen.workstations))
        => GenerationFailure

\* C6 as stated: whenever the workstations can be paired and P >= 1,
\* generate_schedule returns a schedule and saves it, and the employees
\* qualified for no workstation have no assignment.
C6_Succeeds ==
    /\ Returned
    /\ Saved(gen.trace)
    /\ gen.schedule.id \in DOMAIN db_schedules
    /\ \A e \in Range(gen.team_employees) :
          (\A w \in Range(gen.workstations) :
              ~(RequiredNames(w) \subseteq HeldNames(e)))
          => \A a \in Assignments(gen.schedule) : a.employee_id # e.id

C6_AsStated ==
    (/\ Called
     /\ HAS_ORTOOLS
     /\ gen.periods_per_day >= 1
     /\ Pairable(gen.employees, gen.workstations))
        => C6_Succeeds

\* the scenario of C6: employees e1, e2, e3 of one team, of whom only e1
\* holds "welding", one workstation w1 that requires "welding", 2 periods
C6_Scenario ==
    /\ Called
    /\ HAS_ORTOOLS
    /\ gen.periods_per_day = 2
    /\ {e.id : e \in Range(gen.employees)} = {"e1", "e2", "e3"}
    /\ {w.id : w \in Range(gen.workstations)} = {"w1"}
    /\ \A w \in Range(gen.workstations) : RequiredNames(w) = {"welding"}
    /\ \A e \in Range(gen.employees) :
          ("welding" \in HeldNames(e)) <=> (e.id = "e1")

\* C6, amended. When the solver is installed and the team has at least one
\* workstation: whenever every workstation can be paired with an available
\* employee of the team, of its own, who is qualified for it, and P >= 1,
\* generate_schedule returns a schedule and saves it, and the employees
\* qualified for no workstation have no assignment; in the scenario e1 is
\* assigned to w1 in periods 1 and 2 and nobody else is assigned.
C6_PairableSucceeds ==
    /\ (/\ Called
        /\ HAS_ORTOOLS
        /\ gen.periods_per_day >= 1
        /\ gen.workstations # <<>>
        /\ Pairable(gen.employees, gen.workstations))
           => C6_Succeeds
    /\ C6_Scenario =>
          /\ Returned
          /\ [i \in 1..Len(gen.schedule.assignments) |->
                <<gen.schedule.assignments[i].employee_id,
                  gen.schedule.assignments[i].workstation_id,
                  gen.schedule.assignments[i].period>>]
             = << <<"e1", "w1", 1>>, <<"e1", "w1", 2>> >>

C6_Witness == C6_Scenario /\ Returned

\* C7. A generate_schedule that ends in failure has not called save and
\* leaves the persisted schedules and assignments as they were.
C7_FailurePersistsNothing ==
    [][(gen' # gen /\ gen'.outcome = "raised")
           => /\ ~Saved(gen'.trace)
              /\ db_schedules' = db_schedules
              /\ db_assignments' = db_assignments]_vars

C7_Witness ==
    /\ Raised
    /\ gen.status = INFEASIBLE
    /\ DOMAIN db_schedules # {}
    /\ gen.schedule.id \notin DOMAIN db_schedules

\* C8. generate_schedule raises a ValueError, without invoking the solver,
\* when the team has no employees, when it has no workstations, and when
\* none of its employees is among the available ones.
C8_DataUnavailable ==
    (/\ Called
     /\ HAS_ORTOOLS
     /\ \/ gen.team_employees = <<>>
        \/ gen.workstations = <<>>
        \/ \A e \in Range(gen.team_employees) :
              e.id \notin gen.available_employee_ids)
        => /\ Raised
           /\ gen.error = "ValueError"
           /\ ~Solved(gen.trace)

C8_Witness ==
    /\ Raised
    /\ gen.team_employees # <<>>
    /\ gen.workstations # <<>>
    /\ \A e \in Range(gen.team_employees) :
          e.id \notin gen.available_employee_ids
    /\ gen.message = <<"Failed to generate schedule: ",
                       "No available employees found">>

\* C9. The employees offered to the solver are exactly the employees of the
\* team that are active and not marked unavailable for the schedule date.
C9_OfferedAreAvailable ==
    ("employee_repository.get_available_employees" \in Range(gen.trace))
        => {e.id : e \in Range(gen.employees)}
           = {e.id : e \in {m \in Range(gen.team_employees) :
                               is_available(m, gen.schedule_date)}}

\* C10. Period bounds: every assignment of the schedule the caller holds, of
\* the schedule generate_schedule built and of every persisted schedule has
\* 1 <= period <= periods_per_day.
C10_PeriodBounds ==
    /\ \A s \in {sched, gen.schedule} : \A a \in Assignments(s) :
          1 <= a.period /\ a.period <= s.periods_per_day
    /\ \A id \in DOMAIN db_assignments :
          /\ db_assignments[id].schedule_id \in DOMAIN db_schedules
          /\ 1 <= db_assignments[id].period
          /\ db_assignments[id].period
                <= db_schedules[db_assignments[id].schedule_id].periods_per_day

C10_Witness ==
    /\ Holds
    /\ err = "ValueError"
    /\ \E a \in Assignments(sched) : a.period = sched.periods_per_day
    /\ sched.version > Len(sched.assignments) + 1

(***************************************************************************)
(* Properties of the Schedule entity and of the service operations on a    *)
(* persisted schedule.                                                     *)
(***************************************************************************)
\* a call of a mutator of the Schedule the caller holds that did not raise
SuccessfulEntityCall ==
    \/ \E e \in EmployeeIds, w \in WorkstationIds,
          p \in 0..(MaxPeriods + 1), n \in Notes :
          AddAssignment(e, w, p, n) /\ err' = "none"
    \/ \E a \in AssignmentIdArgs : RemoveAssignment(a)
    \/ \E a \in AssignmentIdArgs, st \in ShiftStatus :
          UpdateAssignmentStatus(a, st)
    \/ Publish
    \/ Unpublish

\* C11. Version monotonicity: every successful add_assignment,
\* remove_assignment, update_assignment_status, publish and unpublish leaves
\* version greater by exactly 1, and no operation on a Schedule decreases it.
C11_VersionMonotonic ==
    [][/\ SuccessfulEntityCall => sched'.version = sched.version + 1
       /\ (sched'.id = sched.id) => sched'.version >= sched.version]_vars

C11_Witness ==
    /\ Holds
    /\ sched.version = 3
    /\ sched.assignments = <<>>
    /\ ~sched.is_published

\* a service call on a persisted schedule: the clock advances and no
\* generate_schedule frame is written
ServiceCalled == now' = now + 1 /\ gen' = gen /\ svc'.op # "none"

\* C12. Every successful publish_schedule and update_assignment_status of
\* ScheduleService persists a version greater than the one persisted before
\* and a later updated_at; publish_schedule persists is_published = TRUE.
C12_ServiceBumpsVersion ==
    [][(ServiceCalled /\ svc'.outcome = "returned") =>
          LET id == svc'.schedule_id
          IN  /\ db_schedules'[id].version > db_schedules[id].version
              /\ db_schedules'[id].updated_at > db_schedules[id].updated_at
              /\ (svc'.op = "publish_schedule")
                    => db_schedules'[id].is_published]_vars

\* C13. Publication state machine: publish sets is_published, unpublish
\* clears it, whatever it was, so unpublished -> published -> unpublished is
\* always possible; publish of a published schedule leaves is_published and
\* the assignments as they are and still increments version.
C13_PublicationStateMachine ==
    [][/\ Publish => /\ sched'.is_published
                     /\ sched'.assignments = sched.assignments
                     /\ sched'.version = sched.version + 1
       /\ Unpublish => /\ ~sched'.is_published
                       /\ sched'.assignments = sched.assignments
                       /\ sched'.version = sched.version + 1
       /\ Holds =>
            LET p1 == publish(sched, now + 1)
                p2 == publish(p1, now + 2)
                u == unpublish(p1, now + 2)
            IN  /\ p1.is_published /\ ~u.is_published
                /\ p2.is_published
                /\ p2.assignments = sched.assignments
                /\ p2.version = sched.version + 2]_vars

C13_Witness ==
    /\ Holds
    /\ sched.is_published
    /\ sched.assignments # <<>>
    /\ sched.version = Len(sched.assignments) + 3

\* C14. publish_schedule and update_assignment_status with a schedule id
\* that get_by_id does not find raise the not-found ValueError, never call
\* save and leave the persisted schedules as they are.
C14_NotFound ==
    [][(ServiceCalled /\ svc'.schedule_id \notin DOMAIN db_schedules) =>
          /\ svc'.outcome = "raised"
          /\ svc'.error = "ValueError"
          /\ svc'.message = <<"Schedule ", svc'.schedule_id, " not found">>
          /\ ~Saved(svc'.trace)
          /\ db_schedules' = db_schedules
          /\ db_assignments' = db_assignments]_vars

C14_Witness ==
    /\ svc.outcome = "raised"
    /\ svc.op = "update_assignment_status"
    /\ DOMAIN db_schedules # {}
    /\ svc.schedule_id \notin DOMAIN db_schedules

\* C15. update_assignment_status of ScheduleService on a persisted schedule
\* with an assignment id that no assignment of the schedule has raises
\* nothing, leaves the list of assignments as loaded, increments version by
\* one and saves the schedule.
C15_UnknownAssignmentNoOp ==
    [][(/\ ServiceCalled
        /\ svc'.op = "update_assignment_status"
        /\ svc'.schedule_id \in DOMAIN db_schedules
        /\ \A id \in DOMAIN db_assignments :
              db_assignments[id].schedule_id = svc'.schedule_id
                 => id # svc'.assignment_id) =>
          /\ svc'.outcome = "returned"
          /\ svc'.loaded = get_by_id(svc'.schedule_id)
          /\ svc'.saved.assignments = svc'.loaded.assignments
          /\ svc'.saved.version = svc'.loaded.version + 1
          /\ Saved(svc'.trace)
          /\ db_schedules'[svc'.schedule_id].version
                = db_schedules[svc'.schedule_id].version + 1
          /\ db_assignments' = db_assignments]_vars

C15_Witness ==
    /\ svc.outcome = "returned"
    /\ svc.op = "update_assignment_status"
    /\ svc.loaded.assignments # <<>>
    /\ svc.status # SCHEDULED
    /\ svc.assignment_id \in DOMAIN db_assignments
    /\ db_assignments[svc.assignment_id].schedule_id # svc.schedule_id

\* the (employee_id, workstation_id, period, status) tuples of a schedule
AssignmentTuples(s) ==
    {<<a.employee_id, a.workstation_id, a.period, a.status>> :
        a \in Assignments(s)}

\* C16. Round trip: the schedule generate_schedule saved, loaded again with
\* get_by_id, has the same set of (employee, workstation, period, status)
\* tuples and the same periods_per_day, is_published and version.
C16_RoundTrip ==
    Returned =>
        LET loaded == get_by_id(gen.schedule.id)
        IN  /\ AssignmentTuples(loaded) = AssignmentTuples(gen.schedule)
            /\ loaded.periods_per_day = gen.schedule.periods_per_day
            /\ loaded.is_published = gen.schedule.is_published
            /\ loaded.version = gen.schedule.version

C16_Witness ==
    /\ Returned
    /\ Len(gen.schedule.assignments) >= 2
    /\ Cardinality(DOMAIN db_schedules) >= 2
    /\ \E id \in DOMAIN db_assignments :
          db_assignments[id].schedule_id # gen.schedule.id

\* what went wrong in a generate_schedule that raised before the save
UnderlyingCause ==
    IF gen.trace = <<"employee_repository.get_by_team">>
    THEN "OperationalError"
    ELSE IF gen.team_employees = <<>> \/ gen.workstations = <<>>
    THEN "No employees or workstations found"
    ELSE IF gen.employees = <<>>
    THEN "No available employees found"
    ELSE "No feasible schedule found"

\* C17. A failure inside generate_schedule while it reads and filters the
\* roster, builds the model, solves or extracts reaches the caller as the
\* one generation failure, whose message carries the underlying cause.
C17_OneGenerationFailure ==
    (Raised /\ HAS_ORTOOLS /\ ~Saved(gen.trace)) =>
        /\ GenerationFailure
        /\ Len(gen.message) = 2
        /\ gen.message[2] = UnderlyingCause

C17_Witness ==
    /\ Raised
    /\ HAS_ORTOOLS
    /\ ~Saved(gen.trace)
    /\ gen.message = <<"Failed to generate schedule: ", "OperationalError">>

\* C18. When save raises during generate_schedule the caller receives that
\* exception as it is, not the generation failure, and save is attempted
\* exactly once.
C18_SaveFailurePropagates ==
    (Raised /\ Saved(gen.trace)) =>
        /\ gen.error = "OperationalError"
        /\ ~GenerationFailure
        /\ Cardinality({i \in 1..Len(gen.trace) :
                           gen.trace[i] = "schedule_repository.save"}) = 1

\* C19. Without the solver library generate_schedule raises ImportError at
\* once: before any repository read, before a Schedule exists, without a
\* save, and not as the generation failure.
C19_SolverUnavailable ==
    (Called /\ ~HAS_ORTOOLS) =>
        /\ Raised
        /\ gen.error = "ImportError"
        /\ ~GenerationFailure
        /\ gen.trace = <<>>
        /\ gen.schedule = NoSchedule
        /\ next_uuid = 0
        /\ db_schedules = << >>
        /\ db_assignments = << >>

C19_Witness ==
    /\ Called
    /\ ~HAS_ORTOOLS
    /\ gen.team_id = 1
    /\ gen.periods_per_day = 2
    /\ \E w \in WorkstationIds : workstations[w].required_qualifications # {}

\* C20. add_assignment with a period outside 1..periods_per_day raises
\* ValueError and leaves the assignments and version as they are; with a
\* period inside it appends one assignment with status SCHEDULED at the end
\* of the list and increments version by one.
C20_AddAssignment ==
    [][\A e \in EmployeeIds, w \in WorkstationIds,
          p \in 0..(MaxPeriods + 1), n \in Notes :
          AddAssignment(e, w, p, n) =>
             IF p < 1 \/ p > sched.periods_per_day
             THEN /\ err' = "ValueError"
                  /\ sched'.assignments = sched.assignments
                  /\ sched'.version = sched.version
             ELSE /\ err' = "none"
                  /\ Len(sched'.assignments) = Len(sched.assignments) + 1
                  /\ SubSeq(sched'.assignments, 1, Len(sched.assignments))
                        = sched.assignments
                  /\ LET a == sched'.assignments[Len(sched'.assignments)]
                     IN  /\ a.employee_id = e /\ a.workstation_id = w
                         /\ a.period = p /\ a.notes = n
                         /\ a.status = SCHEDULED
                         /\ \A b \in Assignments(sched) : b.id # a.id
                  /\ sched'.version = sched.version + 1]_vars

C20_Witness ==
    /\ Holds
    /\ err = "ValueError"
    /\ Len(sched.assignments) = 1
    /\ sched.version = 2

(***************************************************************************)
(* Order of the calls of generate_schedule, and the shape of its result.   *)
(***************************************************************************)
\* the calls generate_schedule makes, in the order of the code
CallOrder ==
    <<"employee_repository.get_by_team",
      "workstation_repository.get_by_team",
      "employee_repository.get_available_employees",
      "solver.Solve",
      "schedule_repository.save">>

\* the persisted assignments of a schedule
PersistedAssignmentIds(schedule_id) ==
    {id \in DOMAIN db_assignments :
        db_assignments[id].schedule_id = schedule_id}

\* C23. In every run of generate_schedule the three repository reads come
\* before the solver, nothing is read between the solve and the end of the
\* extraction, and save is called at most once, after a success status and
\* after every assignment has been added.
C23_CallOrder ==
    Called =>
        /\ Len(gen.trace) <= Len(CallOrder)
        /\ gen.trace = SubSeq(CallOrder, 1, Len(gen.trace))
        /\ Saved(gen.trace) =>
              /\ SolverSucceeded(gen.status)
              /\ Len(gen.schedule.assignments)
                    = Len(gen.workstations) * gen.periods_per_day
        /\ Returned =>
              PersistedAssignmentIds(gen.schedule.id)
                 = {a.id : a \in Assignments(gen.schedule)}

C23_Witness ==
    /\ Returned
    /\ gen.trace = CallOrder
    /\ Len(gen.schedule.assignments) = 4
    /\ Cardinality(PersistedAssignmentIds(gen.schedule.id)) = 4

\* C26. update_assignment_status(id, t) on an assignment of the schedule
\* sets its status to t, from every status s to every status t, s = t
\* included, and never raises.
C26_AnyTransition ==
    [][\A id \in AssignmentIdArgs, t \in ShiftStatus :
          (UpdateAssignmentStatus(id, t)
             /\ \E a \in Assignments(sched) : a.id = id) =>
                /\ err' = "none"
                /\ \E a \in Assignments(sched') : a.id = id /\ a.status = t
                /\ \A a \in Assignments(sched') : a.id = id => a.status = t]_vars

C26_Witness ==
    /\ Holds
    /\ Len(sched.assignments) = 2
    /\ sched.assignments[1].status = IN_PROGRESS
    /\ sched.version = 5
    /\ ~sched.is_published

\* C27. update_assignment_status(id, s) changes the status of the
\* assignment with that id and nothing else: number and order of the
\* assignments, their ids, employees, workstations, periods and notes, the
\* status of the others and is_published stay as they are.
C27_StatusFrame ==
    [][\A id \in AssignmentIdArgs, st \in ShiftStatus :
          UpdateAssignmentStatus(id, st) =>
             /\ Len(sched'.assignments) = Len(sched.assignments)
             /\ \A i \in 1..Len(sched.assignments) :
                   LET a == sched.assignments[i]
                       b == sched'.assignments[i]
                   IN  /\ b.id = a.id
                       /\ b.employee_id = a.employee_id
                       /\ b.workstation_id = a.workstation_id
                       /\ b.period = a.period
                       /\ b.notes = a.notes
                       /\ (a.id # id) => b.status = a.status
             /\ sched'.is_published = sched.is_published]_vars

C27_Witness ==
    /\ Holds
    /\ \E a, b \in Assignments(sched) :
          a.status = COMPLETED /\ b.status = CANCELLED

\* C28. Every schedule generate_schedule saved has periods_per_day >= 1.
C28_PositivePeriods ==
    /\ Returned => gen.periods_per_day >= 1
    /\ \A id \in DOMAIN db_schedules : db_schedules[id].periods_per_day >= 1

\* C29. In a returned schedule every employee offered to the solver has no
\* assignment or exactly P of them, one for each period 1..P and all at one
\* workstation; the assigned employees are as many as the workstations of
\* the team, the assignments are (workstations) x P, all SCHEDULED.
C29_UniformAssignments ==
    Returned =>
        LET P == gen.periods_per_day
            Of(e) == {a \in Assignments(gen.schedule) : a.employee_id = e.id}
        IN  /\ \A e \in Range(gen.employees) :
                  \/ Of(e) = {}
                  \/ /\ Cardinality(Of(e)) = P
                     /\ {a.period : a \in Of(e)} = 1..P
                     /\ Cardinality({a.workstation_id : a \in Of(e)}) = 1
            /\ Cardinality({a.employee_id : a \in Assignments(gen.schedule)})
                  = Len(gen.workstations)
            /\ Len(gen.schedule.assignments) = Len(gen.workstations) * P
            /\ Cardinality(Assignments(gen.schedule))
                  = Len(gen.workstations) * P
            /\ \A a \in Assignments(gen.schedule) : a.status = SCHEDULED

\* C30. Every assignment of a returned schedule names an employee that
\* get_by_team and get_available_employees both returned and a workstation
\* that get_by_team returned; nobody and nothing of another team is
\* assigned, although the available set holds employees of every team.
C30_TeamOnly ==
    Returned =>
        \A a \in Assignments(gen.schedule) :
            /\ a.employee_id \in {e.id : e \in Range(gen.team_employees)}
            /\ a.employee_id \in gen.available_employee_ids
            /\ a.workstation_id \in {w.id : w \in Range(gen.workstations)}
            /\ employees[a.employee_id].team_id = gen.team_id
            /\ workstations[a.workstation_id].team_id = gen.team_id

C30_Witness ==
    /\ Returned
    /\ gen.schedule.assignments # <<>>
    /\ \E e \in gen.available_employee_ids :
          employees[e].team_id # gen.team_id
    /\ \E w \in WorkstationIds : workstations[w].team_id # gen.team_id

(***************************************************************************)
(* Authentication: the tokens of the login and refresh endpoints, and the  *)
(* role dependencies that guard the schedule endpoints.                    *)
(***************************************************************************)
MaxTokens == 3        \* refresh tokens issued per behaviour

Usernames == {"alice", "bob"}

\* class Role
ADMIN == "admin"
SCHEDULER == "scheduler"
OPERATOR == "operator"
VIEWER == "viewer"

\* a string that does not decode with SECRET_KEY
Garbage == [sub |-> "", roles |-> <<>>, token_type |-> "garbage", jti |-> 0]

\* create_access_token(data, roles): the payload of the token
create_access_token(data, roles) ==
    [sub |-> data.sub, roles |-> roles, token_type |-> "access", jti |-> 0]

\* create_refresh_token(data, ...): the payload of the token
create_refresh_token(data, token_id) ==
    [sub |-> data.sub, roles |-> <<>>, token_type |-> "refresh",
     jti |-> token_id]

\* jwt.decode raises JWTError: bad signature, or the exp claim has passed
JWTError(token, expired) == token = Garbage \/ expired

\* get_current_user(security_scopes, token): 200 when the user is returned,
\* otherwise the status code of the HTTPException
get_current_user(scopes, token, expired) ==
    IF JWTError(token, expired) THEN 401
    ELSE IF token.token_type # "access" THEN 401
    ELSE IF \E i \in 1..Len(scopes) : scopes[i] \notin Range(token.roles)
    THEN 403
    ELSE 200

\* the scopes of get_admin_user, get_scheduler_user, get_operator_user and
\* get_viewer_user
DependencyScopes ==
    [get_admin_user |-> <<ADMIN>>,
     get_scheduler_user |-> <<SCHEDULER, ADMIN>>,
     get_operator_user |-> <<OPERATOR, SCHEDULER, ADMIN>>,
     get_viewer_user |-> <<VIEWER, OPERATOR, SCHEDULER, ADMIN>>]

\* the endpoints of the schedules router and the dependency of each
Endpoints ==
    [list_schedules |-> "get_viewer_user",
     get_schedule |-> "get_viewer_user",
     create_schedule |-> "get_scheduler_user",
     publish_schedule |-> "get_scheduler_user"]

AuthFrame ==
    UNCHANGED <<HAS_ORTOOLS, employees, workstations, db_schedules,
                db_assignments, next_uuid, now, sched, err, gen, svc,
                threads, limiter>>

\* POST /auth/token
login_for_access_token(username, password_ok) ==
    /\ auth.next_jti < MaxTokens
    /\ IF ~password_ok
       THEN auth' = [auth EXCEPT !.last = [endpoint |-> "login",
                                           token |-> Garbage,
                                           expired |-> FALSE,
                                           status_code |-> 401]]
       ELSE LET data == [sub |-> username]
                access_token == create_access_token(data, <<"viewer">>)
                refresh_token == create_refresh_token(data, auth.next_jti + 1)
            IN  auth' = [auth EXCEPT
                           !.issued = @ \cup {access_token, refresh_token},
                           !.refresh_tokens = @ \cup {auth.next_jti + 1},
                           !.next_jti = @ + 1,
                           !.last = [endpoint |-> "login",
                                     token |-> access_token,
                                     expired |-> FALSE,
                                     status_code |-> 200]]
    /\ AuthFrame

\* validate_refresh_token: 200 when it returns, otherwise the status code
validate_refresh_token(refresh_token, expired) ==
    IF JWTError(refresh_token, expired) THEN 401
    ELSE IF refresh_token.token_type # "refresh" THEN 401
    ELSE IF refresh_token.jti \notin auth.refresh_tokens THEN 401
    ELSE 200

\* POST /auth/refresh
refresh_access_token(refresh_token, expired) ==
    /\ auth.next_jti < MaxTokens
    /\ IF validate_refresh_token(refresh_token, expired) # 200
       THEN auth' = [auth EXCEPT !.last = [endpoint |-> "refresh",
                                           token |-> refresh_token,
                                           expired |-> expired,
                                           status_code |-> 401]]
       ELSE LET data == [sub |-> refresh_token.sub]
                access_token == create_access_token(data, <<"viewer">>)
                new_refresh == create_refresh_token(data, auth.next_jti + 1)
            IN  auth' = [auth EXCEPT
                           !.issued = @ \cup {access_token, new_refresh},
                           !.refresh_tokens = @ \cup {auth.next_jti + 1},
                           !.next_jti = @ + 1,
                           !.last = [endpoint |-> "refresh",
                                     token |-> access_token,
                                     expired |-> FALSE,
                                     status_code |-> 200]]
    /\ AuthFrame

\* a request to an endpoint of the schedules router with a bearer token
guarded_request(endpoint, token, expired) ==
    /\ auth' = [auth EXCEPT !.last =
                  [endpoint |-> endpoint, token |-> token,
                   expired |-> expired,
                   status_code |->
                      get_current_user(DependencyScopes[Endpoints[endpoint]],
                                       token, expired)]]
    /\ AuthFrame

NextAuth ==
    \/ \E u \in Usernames, ok \in BOOLEAN : login_for_access_token(u, ok)
    \/ \E tk \in auth.issued \cup {Garbage}, x \in BOOLEAN :
          refresh_access_token(tk, x)
    \/ \E ep \in DOMAIN Endpoints, tk \in auth.issued \cup {Garbage},
          x \in BOOLEAN : guarded_request(ep, tk, x)

SpecAuth == InitSchedule /\ [][NextAuth]_vars

\* C22. An access token of the login endpoint or of the refresh endpoint,
\* which carries the role viewer only, is accepted by the endpoints that
\* get_viewer_user guards: GET /schedules with it is answered 200.
C22_ViewerTokenAccepted ==
    (/\ auth.last.endpoint \in DOMAIN Endpoints
     /\ Endpoints[auth.last.endpoint] = "get_viewer_user"
     /\ auth.last.token \in auth.issued
     /\ auth.last.token.token_type = "access"
     /\ ~auth.last.expired)
        => auth.last.status_code = 200

(***************************************************************************)
(* RateLimiter, the in-memory middleware.  limiter.requests is the dict    *)
(* self.requests, limiter.time what time.time() returns, limiter.log the   *)
(* requests dispatched so far with the status code of the response.        *)
(***************************************************************************)
MaxRequests == 4      \* requests per behaviour
MaxClock == 3         \* largest value of time.time()

Limits == 0..2
Windows == 1..2
ClientKeys == {"client1", "client2"}
\* request.url.path, split at "/"
Paths == {<<"api", "v1", "schedules">>, <<"api", "v1", "health">>}

LimiterFrame ==
    UNCHANGED <<HAS_ORTOOLS, employees, workstations, db_schedules,
                db_assignments, next_uuid, now, sched, err, gen, svc,
                threads, auth>>

\* app.add_middleware(RateLimiter, limit=limit, window=window)
add_middleware(limit, window) ==
    /\ ~limiter.added
    /\ limiter' = [limiter EXCEPT !.added = TRUE, !.limit = limit,
                                  !.window = window, !.requests = << >>]
    /\ LimiterFrame

\* the clock advances by a second
Advance ==
    /\ limiter.added
    /\ limiter.time < MaxClock
    /\ limiter' = [limiter EXCEPT !.time = @ + 1]
    /\ LimiterFrame

\* RateLimiter._should_skip
should_skip(path) ==
    path[Len(path)] = "health" \/ path[Len(path)] = "status"

\* RateLimiter._cleanup: self.requests without the expired keys
cleanup(requests, time, window) ==
    LET expired_keys == {key \in DOMAIN requests :
                            time - requests[key].first_request > window}
    IN  [key \in (DOMAIN requests) \ expired_keys |-> requests[key]]

\* a limit reached with the request that equals it
Exceeded_AtLimit(count, limit) == count >= limit

\* return count > self.limit
Exceeded(count, limit) == count > limit

\* RateLimiter._is_rate_limited: the dict it leaves and what it returns
is_rate_limited(requests, key, time, limit, window) ==
    LET cleaned == cleanup(requests, time, window)
        got == IF key \in DOMAIN cleaned
               THEN cleaned[key]
               ELSE [count |-> 0, first_request |-> time]
        entry == IF time - got.first_request > window
                 THEN [count |-> 0, first_request |-> time]
                 ELSE got
        count == entry.count + 1
        stored == [count |-> count, first_request |-> entry.first_request]
    IN  [requests |-> [k \in (DOMAIN cleaned) \cup {key} |->
                          IF k = key THEN stored ELSE cleaned[k]],
         limited |-> Exceeded(count, limit)]

\* RateLimiter.dispatch
dispatch(key, path) ==
    /\ limiter.added
    /\ Len(limiter.log) < MaxRequests
    /\ IF should_skip(path)
       THEN limiter' = [limiter EXCEPT !.log =
                          Append(@, [key |-> key, path |-> path,
                                     at |-> limiter.time,
                                     status_code |-> 200])]
       ELSE LET r == is_rate_limited(limiter.requests, key, limiter.time,
                                     limiter.limit, limiter.window)
            IN  limiter' = [limiter EXCEPT
                              !.requests = r.requests,
                              !.log = Append(@,
                                 [key |-> key, path |-> path,
                                  at |-> limiter.time,
                                  status_code |->
                                     IF r.limited THEN 429 ELSE 200])]
    /\ LimiterFrame

NextLimiter ==
    \/ \E l \in Limits, w \in Windows : add_middleware(l, w)
    \/ Advance
    \/ \E k \in ClientKeys, p \in Paths : dispatch(k, p)

SpecLimiter == InitSchedule /\ [][NextLimiter]_vars

\* the requests of a key in the log, in order
RequestsOf(key, counted) ==
    SelectSeq(limiter.log, LAMBDA r : r.key = key /\ counted[r.path])

RECURSIVE WindowIndex(_, _, _)
\* for the i-th request of entries: the time its window started and its
\* number in that window; a request starts a new window when the time since
\* the first request of the current one is in the set elapsed
WindowIndex(entries, i, elapsed) ==
    IF i = 1 THEN [start |-> entries[1].at, index |-> 1]
    ELSE LET prev == WindowIndex(entries, i - 1, elapsed)
         IN  IF entries[i].at - prev.start \in elapsed
             THEN [start |-> entries[i].at, index |-> 1]
             ELSE [start |-> prev.start, index |-> prev.index + 1]

\* the first limit requests of every window of the key are passed, the
\* others are answered 429, and the first request after the window has
\* elapsed is passed
WindowedLimit(key, counted, elapsed, passes_again) ==
    LET entries == RequestsOf(key, counted)
    IN  \A i \in 1..Len(entries) :
           LET w == WindowIndex(entries, i, elapsed)
           IN  /\ entries[i].status_code
                     = IF w.index <= limiter.limit THEN 200 ELSE 429
               /\ (passes_again /\ i > 1 /\ w.index = 1)
                     => entries[i].status_code = 200

\* C21 as stated: for each key, apart from the others, the first limit
\* requests of a window are passed and every further request of the window
\* is answered 429; once the window has elapsed since the first counted
\* request of the key, its next request is passed again.
C21_AsStated ==
    \A key \in ClientKeys :
        WindowedLimit(key, [p \in Paths |-> TRUE],
                      limiter.window..MaxClock, TRUE)

\* C21, amended.  Of the requests to paths that do not end in /health or
\* /status, for each key apart from the others: the first limit requests of
\* a window are passed and every further one is answered 429; a request
\* more than window seconds after the first counted request of the key
\* starts a new window, and is passed when limit >= 1.  Requests to /health
\* and /status are always passed and are not counted.
C21_RateLimit ==
    /\ \A key \in ClientKeys :
          WindowedLimit(key, [p \in Paths |-> ~should_skip(p)],
                        (limiter.window + 1)..MaxClock, limiter.limit >= 1)
    /\ \A i \in 1..Len(limiter.log) :
          should_skip(limiter.log[i].path) => limiter.log[i].status_code = 200

C21_Witness ==
    /\ limiter.limit = 1
    /\ Len(limiter.log) = 4
    /\ \E i \in 1..4 : limiter.log[i].key = "client2"
    /\ LET mine == RequestsOf("client1", [p \in Paths |-> ~should_skip(p)])
       IN  /\ Len(mine) = 3
           /\ mine[1].status_code = 200
           /\ mine[2].status_code = 429
           /\ mine[3].status_code = 200
           /\ mine[2].at - mine[1].at <= limiter.window
           /\ mine[3].at - mine[1].at > limiter.window

(***************************************************************************)
(* Two threads in ScheduleService on the same database, each in its own    *)
(* session.  A call of publish_schedule or update_assignment_status is two *)
(* steps: get_by_id with the change made in memory, then save.  A thread   *)
(* keeps the frame of its call in threads[th].call: loaded is what         *)
(* get_by_id returned, saved the schedule handed to save.  loaded_at and   *)
(* saved_at are the times of the two steps and found_version the version   *)
(* persisted when save began.                                              *)
(***************************************************************************)
ThreadFrame ==
    UNCHANGED <<HAS_ORTOOLS, employees, workstations, sched, err, gen, svc,
                limiter, auth>>

\* the schedule is generated before the threads start
Quiet == DOMAIN db_schedules = {} /\ \A th \in Threads : threads[th].pc = "idle"

\* what the operation of the call does to the loaded entity, in memory
Changed(call, schedule, t) ==
    IF call.op = "publish_schedule"
    THEN [schedule EXCEPT !.is_published = TRUE]
    ELSE update_assignment_status(schedule, call.assignment_id, call.status, t)

\* schedule = self.schedule_repository.get_by_id(schedule_id), then the
\* change of the operation on the loaded entity
Loads(th, call) ==
    /\ threads[th].pc = "idle"
    /\ now' = now + 1
    /\ LET schedule == get_by_id(call.schedule_id)
       IN  IF NotFound(schedule)
           THEN /\ threads' = [threads EXCEPT ![th] =
                     [@ EXCEPT !.pc = "raised", !.loaded_at = now + 1,
                        !.call = [call EXCEPT
                                    !.outcome = "raised",
                                    !.error = "ValueError",
                                    !.message = <<"Schedule ",
                                                  call.schedule_id,
                                                  " not found">>]]]
                /\ next_uuid' = next_uuid
           ELSE /\ threads' = [threads EXCEPT ![th] =
                     [@ EXCEPT !.pc = "loaded", !.loaded_at = now + 1,
                        !.call = [call EXCEPT !.loaded = schedule,
                                              !.saved = Changed(call, schedule,
                                                                now + 1)]]]
                /\ next_uuid' = next_uuid + 1
    /\ UNCHANGED <<db_schedules, db_assignments>>
    /\ ThreadFrame

\* publish_schedule up to schedule.is_published = True
publish_schedule_loads(th, schedule_id) ==
    Loads(th,
          [NoServiceCall EXCEPT
             !.op = "publish_schedule", !.schedule_id = schedule_id,
             !.trace = <<"schedule_repository.get_by_id">>])

\* update_assignment_status up to schedule.update_assignment_status(...)
update_assignment_status_loads(th, schedule_id, assignment_id, status) ==
    Loads(th,
          [NoServiceCall EXCEPT
             !.op = "update_assignment_status", !.schedule_id = schedule_id,
             !.assignment_id = assignment_id, !.status = status,
             !.trace = <<"schedule_repository.get_by_id">>])

\* self.schedule_repository.save(schedule) of either operation
saves(th) ==
    /\ threads[th].pc = "loaded"
    /\ now' = now + 1
    /\ db_schedules' = SavedSchedules(threads[th].call.saved)
    /\ db_assignments' = SavedAssignments(threads[th].call.saved)
    /\ threads' = [threads EXCEPT ![th] =
          [@ EXCEPT !.pc = "saved", !.saved_at = now + 1,
             !.found_version =
                db_schedules[threads[th].call.schedule_id].version,
             !.call = [@ EXCEPT
                         !.outcome = "returned",
                         !.trace = @ \o <<"schedule_repository.save">>]]]
    /\ UNCHANGED next_uuid
    /\ ThreadFrame

NextInterleaved ==
    \/ \E t \in Teams, d \in Dates, P \in PeriodArgs :
          Quiet /\ generate_schedule(t, d, P, "none")
    \/ \E th \in Threads, id \in ScheduleIdArgs :
          publish_schedule_loads(th, id)
    \/ \E th \in Threads, id \in ScheduleIdArgs,
          a \in PersistedAssignmentIdArgs, st \in ShiftStatus :
          update_assignment_status_loads(th, id, a, st)
    \/ \E th \in Threads : saves(th)

SpecInterleaved == InitSchedule /\ [][NextInterleaved]_vars

\* th has saved, and no thread has saved the same schedule after it
LastSaver(th) ==
    /\ threads[th].pc = "saved"
    /\ \A other \in Threads :
          (/\ threads[other].pc = "saved"
           /\ threads[other].call.schedule_id = threads[th].call.schedule_id)
              => threads[other].saved_at <= threads[th].saved_at

\* the columns of a row of "schedules" that the writer sets; updated_at is
\* the writer's or the onupdate default of the column
Written(row) == [row EXCEPT !.updated_at = 0]

\* C24. save has no check of the version: a thread that has loaded a
\* schedule can always save it, whatever version is persisted by then, and
\* after the save of the last saver of a schedule the persisted row and the
\* persisted assignment rows are those of the schedule that thread handed to
\* save.
C24_LastWriterWins ==
    \A th \in Threads :
        /\ threads[th].pc = "loaded" => ENABLED saves(th)
        /\ threads[th].pc = "saved" => threads[th].call.outcome = "returned"
        /\ LastSaver(th) =>
              LET s == threads[th].call.saved
              IN  /\ Written(db_schedules[s.id]) = Written(ScheduleRow(s))
                  /\ \A i \in 1..Len(s.assignments) :
                        db_assignments[s.assignments[i].id]
                           = AssignmentRow(s, s.assignments[i])

\* both threads loaded before either saved; t1 saved a status first, t2
\* then saved its publication over a version it had not loaded, and the
\* status t1 wrote is gone
C24_Witness ==
    LET first == threads["t1"]
        second == threads["t2"]
    IN  /\ first.pc = "saved" /\ second.pc = "saved"
        /\ first.call.op = "update_assignment_status"
        /\ second.call.op = "publish_schedule"
        /\ first.call.schedule_id = second.call.schedule_id
        /\ second.loaded_at < first.saved_at
        /\ first.saved_at < second.saved_at
        /\ second.found_version # second.call.loaded.version
        /\ \E i \in 1..Len(first.call.saved.assignments) :
              LET a == first.call.saved.assignments[i]
              IN  /\ a.id = first.call.assignment_id
                  /\ a.status = IN_PROGRESS
                  /\ db_assignments[a.id].status = "scheduled"
        /\ db_schedules[second.call.schedule_id].is_published

(***************************************************************************)
(* Two threads in generate_schedule at the same time.  A call is a         *)
(* sequence of steps: the Schedule is constructed, the roster is read, the *)
(* model is solved, the assignments are added one by one, the schedule is  *)
(* saved.  threads[th].call is the frame of the call, with the locals of   *)
(* the invocation; hits are the true variables not yet extracted.  The     *)
(* roster is one that add_qualification("e1", "welding", 1) and            *)
(* add_required_qualification("w1", "welding", 1) have left.               *)
(***************************************************************************)
InitConcurrent ==
    /\ HAS_ORTOOLS = TRUE
    /\ employees = [e \in EmployeeIds |->
                      [NewEmployee(e, 1) EXCEPT !.qualifications =
                          IF e = "e1"
                          THEN {[name |-> "welding", level |-> 1]} ELSE {}]]
    /\ workstations = [w \in WorkstationIds |->
                         [NewWorkstation(w, 1) EXCEPT
                             !.required_qualifications =
                                IF w = "w1"
                                THEN {[name |-> "welding",
                                       minimum_level |-> DefaultMinimumLevel]}
                                ELSE {}]]
    /\ db_schedules = << >>
    /\ db_assignments = << >>
    /\ next_uuid = 0
    /\ now = 2
    /\ sched = NoSchedule
    /\ err = "none"
    /\ gen = NoCall
    /\ svc = NoServiceCall
    /\ threads = [th \in Threads |-> Idle]
    /\ limiter = NoRateLimiter
    /\ auth = NoTokens

\* an id that has been drawn before
uuid4_Repeated(drawn) == 1

\* uuid4(): an id nobody has drawn; drawn counts the ids drawn so far
uuid4(drawn) == drawn + 1

\* the thread goes on with the frame, at pc
Goes(th, pc, frame, hits) ==
    threads' = [threads EXCEPT ![th] =
                  [pc |-> pc, call |-> frame, hits |-> hits]]

\* the except clause of generate_schedule in a thread
FailsIn(th, frame, cause) == Goes(th, "raised", Wrapped(frame, cause), <<>>)

\* the probe for the solver, and schedule = Schedule(...)
begins(th, team_id, schedule_date, periods_per_day) ==
    /\ threads[th].pc = "idle"
    /\ now' = now + 1
    /\ LET call == [NoCall EXCEPT !.called_at = now + 1,
                                  !.team_id = team_id,
                                  !.schedule_date = schedule_date,
                                  !.periods_per_day = periods_per_day]
       IN  IF SolverMissing
           THEN /\ Goes(th, "raised",
                        [call EXCEPT
                           !.outcome = "raised", !.error = "ImportError",
                           !.message = <<"Please install ortools package">>],
                        <<>>)
                /\ UNCHANGED next_uuid
           ELSE /\ Goes(th, "constructed",
                        [call EXCEPT !.schedule =
                            NewSchedule(uuid4(next_uuid), team_id,
                                        schedule_date, periods_per_day,
                                        now + 1)],
                        <<>>)
                /\ next_uuid' = uuid4(next_uuid)
    /\ UNCHANGED <<db_schedules, db_assignments>>
    /\ ThreadFrame

\* the three reads of the repositories and the filter
reads(th) ==
    /\ threads[th].pc = "constructed"
    /\ LET call == threads[th].call
           team_employees == employee_get_by_team(call.team_id)
           wss == workstation_get_by_team(call.team_id)
           available_employees == get_available_employees(call.schedule_date)
           available_employee_ids == {e.id : e \in Range(available_employees)}
           emps == FilterAvailable(team_employees, available_employee_ids)
           read1 == [call EXCEPT
                       !.team_employees = team_employees,
                       !.workstations = wss,
                       !.trace = <<"employee_repository.get_by_team",
                                   "workstation_repository.get_by_team">>]
           read2 == [read1 EXCEPT
                       !.available_employee_ids = available_employee_ids,
                       !.employees = emps,
                       !.trace = @ \o
                          <<"employee_repository.get_available_employees">>]
       IN  IF team_employees = <<>> \/ wss = <<>>
           THEN FailsIn(th, read1, "No employees or workstations found")
           ELSE IF emps = <<>>
           THEN FailsIn(th, read2, "No available employees found")
           ELSE Goes(th, "read", read2, <<>>)
    /\ UNCHANGED <<db_schedules, db_assignments, next_uuid, now>>
    /\ ThreadFrame

\* model = cp_model.CpModel() ... status = solver.Solve(model)
solves(th) ==
    /\ threads[th].pc = "read"
    /\ LET call == threads[th].call
           solutions == Solutions(call.employees, call.workstations,
                                  call.periods_per_day)
           status == SolveStatus(solutions)
           solved == [call EXCEPT !.status = status,
                                  !.trace = @ \o <<"solver.Solve">>]
       IN  IF ~SolverSucceeded(status)
           THEN FailsIn(th, solved, "No feasible schedule found")
           ELSE \E shifts \in solutions :
                  Goes(th, "solved", solved,
                       TrueVariables(shifts, Len(call.employees),
                                     Len(call.workstations),
                                     call.periods_per_day))
    /\ UNCHANGED <<db_schedules, db_assignments, next_uuid, now>>
    /\ ThreadFrame

\* one schedule.add_assignment(...) of the extraction
adds(th) ==
    /\ threads[th].pc = "solved"
    /\ threads[th].hits # <<>>
    /\ LET call == threads[th].call
           v == Head(threads[th].hits)
           period == v.p + 1
       IN  IF add_assignment_raises(call.schedule, period)
           THEN /\ FailsIn(th, call, "Period must be between")
                /\ UNCHANGED next_uuid
           ELSE /\ Goes(th, "solved",
                        [call EXCEPT !.schedule =
                            add_assignment(@, uuid4(next_uuid),
                                           call.employees[v.e].id,
                                           call.workstations[v.w].id,
                                           period, "", call.called_at)],
                        Tail(threads[th].hits))
                /\ next_uuid' = uuid4(next_uuid)
    /\ UNCHANGED <<db_schedules, db_assignments, now>>
    /\ ThreadFrame

\* self.schedule_repository.save(schedule); return schedule
returns(th) ==
    /\ threads[th].pc = "solved"
    /\ threads[th].hits = <<>>
    /\ Goes(th, "returned",
            [threads[th].call EXCEPT
               !.outcome = "returned",
               !.trace = @ \o <<"schedule_repository.save">>],
            <<>>)
    /\ db_schedules' = SavedSchedules(threads[th].call.schedule)
    /\ db_assignments' = SavedAssignments(threads[th].call.schedule)
    /\ UNCHANGED <<next_uuid, now>>
    /\ ThreadFrame

NextConcurrent ==
    \/ \E th \in Threads, t \in Teams, d \in Dates, P \in PeriodArgs :
          begins(th, t, d, P)
    \/ \E th \in Threads : reads(th)
    \/ \E th \in Threads : solves(th)
    \/ \E th \in Threads : adds(th)
    \/ \E th \in Threads : returns(th)

SpecConcurrent == InitConcurrent /\ [][NextConcurrent]_vars

\* the ids of the assignments of a schedule
AssignmentIds(s) == {a.id : a \in Assignments(s)}

\* coverage, no double-booking, qualification respect and continuity of the
\* schedule of a frame, on the roster the invocation read
WellFormed(call) ==
    LET s == call.schedule
    IN  /\ \A w \in Range(call.workstations) :
           \A p \in 1..call.periods_per_day :
              Cardinality({a \in Assignments(s) :
                              a.workstation_id = w.id /\ a.period = p}) = 1
        /\ \A a, b \in Assignments(s) :
              (a.employee_id = b.employee_id /\ a.period = b.period)
                 => a.workstation_id = b.workstation_id
        /\ \A a \in Assignments(s) :
              \E e \in Range(call.employees), w \in Range(call.workstations) :
                 /\ e.id = a.employee_id
                 /\ w.id = a.workstation_id
                 /\ RequiredNames(w) \subseteq HeldNames(e)
        /\ \A a \in Assignments(s) :
              Cardinality({b.workstation_id :
                              b \in {c \in Assignments(s) :
                                        c.employee_id = a.employee_id}}) = 1

\* the schedule of the frame is one the invocation returns when it runs
\* alone: the extraction of an assignment that satisfies its model, on the
\* roster as it is
AsAlone(call) ==
    LET emps == FilterAvailable(employee_get_by_team(call.team_id),
                   {e.id : e \in Range(get_available_employees(
                                          call.schedule_date))})
        wss == workstation_get_by_team(call.team_id)
        P == call.periods_per_day
    IN  \E shifts \in Solutions(emps, wss, P) :
           LET hits == TrueVariables(shifts, Len(emps), Len(wss), P)
           IN  /\ Len(call.schedule.assignments) = Len(hits)
               /\ \A i \in 1..Len(hits) :
                     LET a == call.schedule.assignments[i]
                     IN  /\ a.employee_id = emps[hits[i].e].id
                         /\ a.workstation_id = wss[hits[i].w].id
                         /\ a.period = hits[i].p + 1
                         /\ a.status = SCHEDULED

\* C25. Two invocations of generate_schedule that interleave: the schedules
\* they return have different ids and no assignment id in common, the rows
\* persisted for each are its own, and each returned schedule satisfies
\* coverage, no double-booking, qualification respect and continuity and is
\* a schedule the invocation returns when it runs alone.
C25_Independent ==
    /\ \A th \in Threads :
          threads[th].pc = "returned" =>
             LET call == threads[th].call
             IN  /\ WellFormed(call)
                 /\ AsAlone(call)
                 /\ db_schedules[call.schedule.id] = ScheduleRow(call.schedule)
                 /\ \A a \in Assignments(call.schedule) :
                       db_assignments[a.id] = AssignmentRow(call.schedule, a)
    /\ (threads["t1"].pc = "returned" /\ threads["t2"].pc = "returned") =>
          LET s1 == threads["t1"].call.schedule
              s2 == threads["t2"].call.schedule
          IN  /\ s1.id # s2.id
              /\ AssignmentIds(s1) \cap AssignmentIds(s2) = {}
              /\ s1.id \notin AssignmentIds(s2)
              /\ s2.id \notin AssignmentIds(s1)

\* both invocations returned two-period schedules whose ids were drawn in
\* turns, and they chose different employees for w2
C25_Witness ==
    /\ threads["t1"].pc = "returned" /\ threads["t2"].pc = "returned"
    /\ LET s1 == threads["t1"].call.schedule
           s2 == threads["t2"].call.schedule
       IN  /\ Len(s1.assignments) = 4 /\ Len(s2.assignments) = 4
           /\ s1.id < s2.id
           /\ \E a \in AssignmentIds(s1), b \in AssignmentIds(s2),
                 c \in AssignmentIds(s1) : a < b /\ b < c
           /\ \E a \in Assignments(s1), b \in Assignments(s2) :
                 /\ a.workstation_id = "w2" /\ b.workstation_id = "w2"
                 /\ a.employee_id # b.employee_id
                 /\ a.employee_id # "e1"

====
